---- MODULE Spec2Model ----
(***************************************************************************)
(* The discrete-time control-loop simulator of sim_tools/sim.py:           *)
(* simulate_system (argument checks, construction of the Simulation tuple, *)
(* pre-fill of the delay line, the fixed-step loop) and simulation_update. *)
(*                                                                         *)
(* Reals are modelled on the integer grid: every time, gain and plant      *)
(* value of a run is an integer, for which the float arithmetic of the     *)
(* program (sums, products, comparisons) is exact.  round() is Python 3's  *)
(* round-half-to-even.                                                     *)
(*                                                                         *)
(* controller.py (PIDArduino) and plant.py are imported by sim.py but are  *)
(* not among the sources; PIDArduino, calc and the plant operators below   *)
(* follow the written contract of those two modules.                       *)
(***************************************************************************)
EXTENDS Integers, Sequences, FiniteSets, TLC

VARIABLES
    args,                 \* sim.py:255  the parsed command line handed to simulate_system
    pc,                   \* sim.py:20   "start" | "running" | "complete" | "error"
    timestamp,            \* sim.py:21   local of simulate_system, seconds
    delayed_samples_len,  \* sim.py:22   local of simulate_system
    allowable_change,     \* sim.py:57   local of simulate_system
    sim,                  \* sim.py:33   the Simulation namedtuple
    trace                 \* sim.py:61-87  what the run did so far: ticks, generator
                          \* draws, delayed_states[0] reads, sensor_state values,
                          \* calc and plant.update calls, plot_simulation, exception

vars == <<args, pc, timestamp, delayed_samples_len, allowable_change, sim, trace>>

----------------------------------------------------------------------------
(* Bounds of the enumerated inputs *)

MaxInterval == 2
MaxDelaySteps == 5

----------------------------------------------------------------------------
(* Arithmetic helpers *)

Max(a, b) == IF a >= b THEN a ELSE b
Min(a, b) == IF a <= b THEN a ELSE b
Abs(a) == IF a >= 0 THEN a ELSE -a

\* floor(n / d), d # 0
FloorDiv(n, d) == IF d > 0 THEN n \div d ELSE (-n) \div (-d)

\* Python 3 round(n / d): nearest integer, ties to the even one
PyRound(n, d) ==
    LET q == FloorDiv(n, d)
        r == IF d > 0 THEN n - q * d ELSE (-n) - q * (-d)
        m == Abs(d)
    IN  IF 2 * r < m THEN q
        ELSE IF 2 * r > m THEN q + 1
        ELSE IF q % 2 = 0 THEN q ELSE q + 1

----------------------------------------------------------------------------
(* plant.py: the plant registry and the plant capability contract *)

\* the classes of plant.py that hasattr(plant, name) resolves
PlantNames == {"Kettle", "InvertedPendulum"}

\* plantClass(initial, constants): the observable starts at the initial value
PlantInit(cls, initial, constants) ==
    [cls |-> cls, state |-> initial.val, k |-> constants.val]

\* plant.sensable_state: a pure read
sensable_state(p) == p.state

\* plant.update(command, duration): zero-order hold over exactly `duration`
\* seconds, deterministic.  Kettle: heated by the command, cooled at rate k.
\* InvertedPendulum: falls at rate k, pushed back by the command.
PlantUpdate(p, command, duration) ==
    IF p.cls = "Kettle"
    THEN [p EXCEPT !.state = p.state + (command - p.k) * duration]
    ELSE [p EXCEPT !.state = p.state + (p.k - command) * duration]

----------------------------------------------------------------------------
(* controller.py: PIDArduino *)

\* PIDArduino.__init__ fails fast on out_min > out_max
PIDConfigError(out_min, out_max) == out_min > out_max

\* PIDArduino(sampletime, kp, ki, kd, out_min, out_max, time)
PIDArduino(sampletime, kp, ki, kd, out_min, out_max) ==
    [sampletime |-> sampletime, kp |-> kp, ki |-> ki, kd |-> kd,
     out_min |-> out_min, out_max |-> out_max,
     integral |-> 0, last_input |-> 0, last_output |-> 0,
     last_calc_time |-> 0]

\* range clamp to [lo, hi]
Clamp(x, lo, hi) == Max(Min(x, hi), lo)

\* the change from the previous output is clamped to +-max_allowable_change
RateLimit(target, last_output, max_allowable_change) ==
    last_output
      + Clamp(target - last_output, -max_allowable_change, max_allowable_change)

\* PIDArduino.calc(input_val, setpoint, max_allowable_change), with `now` the
\* value of the controller's time source.  Returns the controller after the
\* call and the output.
calc(c, now, input_val, setpoint, max_allowable_change) ==
    IF now - c.last_calc_time < c.sampletime
    THEN [controller |-> c, output |-> c.last_output]
    ELSE
      LET error      == setpoint - input_val
          integral   == c.integral + error * c.sampletime
          derivative == FloorDiv(-(input_val - c.last_input), c.sampletime)
          raw        == c.kp * error + c.ki * integral + c.kd * derivative
          saturated  == raw < c.out_min \/ raw > c.out_max
          clamped    == Clamp(raw, c.out_min, c.out_max)
          out        == RateLimit(clamped, c.last_output, max_allowable_change)
      IN  [controller |->
             [c EXCEPT !.integral = IF saturated THEN c.integral ELSE integral,
                       !.last_input = input_val,
                       !.last_output = out,
                       !.last_calc_time = now],
           output |-> out]

----------------------------------------------------------------------------
(* The inputs: args as argparse hands them over *)

\* literal_eval of --initial-values / --constant-values: a dict or not
Dict(v) == [kind |-> "dict", val |-> v]
NotDict(v) == [kind |-> "list", val |-> v]

SampleTimes == {20, 25, 40}
Intervals == 1 .. MaxInterval
Delays == {10 * i : i \in 0 .. MaxDelaySteps}
Gains == {<<0, 0, 0>>, <<1, 0, 0>>, <<2, 1, 1>>}
OutRanges == {<<0, 100>>, <<-50, 50>>, <<30, 100>>}
RateLimits == {1, 1000}
NoiseStdDevs == {-1, 0, 1}

\* the draws np.random.normal(scale=s) is let to return
NormalDraws(s) == {-s, s}

Args(plant, pid, setpoint, supress, interval, delay, sampletime, range, noise, rate, constants, initial) ==
    [plant |-> plant, pid |-> pid, setpoint |-> setpoint,
     supress_output |-> supress, interval |-> interval, delay |-> delay,
     sampletime |-> sampletime, out_min |-> range[1], out_max |-> range[2],
     sensor_noise_std_dev |-> noise, output_rate_limit |-> rate,
     constant_values |-> constants, initial_values |-> initial]

\* the runs every check of simulate_system lets through
ValidArgs ==
    { Args(p, g, 45, s, i, d, st, r, n, rl, Dict(1), Dict(40)) :
        p \in PlantNames, g \in Gains, s \in BOOLEAN, i \in Intervals,
        d \in Delays, st \in SampleTimes, r \in OutRanges,
        n \in NoiseStdDevs, rl \in RateLimits }

\* the Kettle command line of the usage note (ki 0.8 taken as 1)
KettleArgs ==
    Args("Kettle", <<104, 1, 205>>, 45, FALSE, 20, 15, 5, <<0, 100>>, 0,
         1000000, Dict(1), Dict(40))

BaseArgs ==
    Args("Kettle", <<2, 1, 1>>, 45, FALSE, 1, 30, 20, <<0, 100>>, 0, 1,
         Dict(1), Dict(40))

\* the configurations the specification calls configuration errors
BadArgs ==
    {[BaseArgs EXCEPT !.plant = "Toaster"],
     [BaseArgs EXCEPT !.initial_values = NotDict(40)],
     [BaseArgs EXCEPT !.constant_values = NotDict(1)],
     [BaseArgs EXCEPT !.out_min = 100, !.out_max = 0],
     [BaseArgs EXCEPT !.sampletime = 0],
     [BaseArgs EXCEPT !.sampletime = 0, !.plant = "Toaster"]}
    \cup {[BaseArgs EXCEPT !.interval = i, !.supress_output = s] :
            i \in {-1, 0}, s \in BOOLEAN}

ArgsSet == ValidArgs \cup {KettleArgs} \cup BadArgs

----------------------------------------------------------------------------
(* sim.py *)

\* collections.deque(maxlen=n)
Deque(n) == [maxlen |-> n, items |-> <<>>]

\* deque.append of an unbounded deque: nothing is dropped
DequeAppend_Unbounded(d, x) == [d EXCEPT !.items = Append(d.items, x)]

\* deque.append: a full bounded deque drops its front element
DequeAppend(d, x) ==
    IF Len(d.items) >= d.maxlen
    THEN [d EXCEPT !.items = Append(Tail(d.items), x)]
    ELSE [d EXCEPT !.items = Append(d.items, x)]

\* delayed_states[-1]: the newest element
Front_Newest(d) == d.items[Len(d.items)]

\* delayed_states[0]: the oldest element, left in place
Front(d) == d.items[1]

RECURSIVE DequeExtend(_, _)
\* deque.extend: append the elements left to right
DequeExtend(d, xs) ==
    IF xs = <<>> THEN d ELSE DequeExtend(DequeAppend(d, Head(xs)), Tail(xs))

\* n * [x]
Repeat(n, x) == [i \in 1 .. n |-> x]

\* delayed_samples_len = max(1, round(args.delay / args.sampletime))
DelayedSamplesLen(a) == Max(1, PyRound(a.delay, a.sampletime))

\* the exception simulate_system ends in before the loop, "" if none
SetupError(a) ==
    IF a.sampletime = 0 THEN "ZeroDivisionError"
    ELSE IF a.plant \notin PlantNames THEN "AssertionError"
    ELSE IF a.initial_values.kind # "dict" THEN "AssertionError"
    ELSE IF a.constant_values.kind # "dict" THEN "AssertionError"
    ELSE IF PIDConfigError(a.out_min, a.out_max) THEN "ValueError"
    ELSE ""

\* the Simulation tuple with its delay line pre-filled
NewSimulation(a, n) ==
    LET plant == PlantInit(a.plant, a.initial_values, a.constant_values)
    IN  [controller |-> PIDArduino(a.sampletime, a.pid[1], a.pid[2], a.pid[3],
                                   a.out_min, a.out_max),
         plant |-> plant,
         delayed_states |-> DequeExtend(Deque(n), Repeat(n, sensable_state(plant))),
         timestamps |-> <<>>,
         plant_states |-> <<>>,
         sensor_states |-> <<>>,
         outputs |-> <<>>]

\* the allowable change without the sample time
AllowableChange_PerSecond(a) == a.output_rate_limit

\* allowable_change = args.output_rate_limit * args.sampletime
AllowableChange(a) == a.output_rate_limit * a.sampletime

\* the loop test with <= in place of <
LoopCondition_Inclusive(ts, a) == ts <= a.interval * 60

\* while timestamp < (args.interval * 60)
LoopCondition(ts, a) == ts < a.interval * 60

\* the noise test with < in place of <=
SensorNoise_Strict(a) ==
    IF a.sensor_noise_std_dev < 0
    THEN {[drawn |-> FALSE, value |-> 0]}
    ELSE {[drawn |-> TRUE, value |-> v] : v \in NormalDraws(a.sensor_noise_std_dev)}

\* sensor_noise: 0.0 without a draw, or one draw of the generator
SensorNoise(a) ==
    IF a.sensor_noise_std_dev <= 0
    THEN {[drawn |-> FALSE, value |-> 0]}
    ELSE {[drawn |-> TRUE, value |-> v] : v \in NormalDraws(a.sensor_noise_std_dev)}

\* the controller reaction with the supress_output test left out
ControllerReaction_Always(a, controller, now, sensor_state, change) ==
    LET r == calc(controller, now, sensor_state, a.setpoint, change)
    IN  [controller |-> r.controller, output |-> r.output,
         calls |-> <<[input_val |-> sensor_state, setpoint |-> a.setpoint,
                      max_allowable_change |-> change]>>]

\* "Calculates controller reaction": 0.0, or one call of controller.calc
ControllerReaction(a, controller, now, sensor_state, change) ==
    IF a.supress_output
    THEN [controller |-> controller, output |-> 0, calls |-> <<>>]
    ELSE LET r == calc(controller, now, sensor_state, a.setpoint, change)
         IN  [controller |-> r.controller, output |-> r.output,
              calls |-> <<[input_val |-> sensor_state, setpoint |-> a.setpoint,
                           max_allowable_change |-> change]>>]

\* simulation_update without the append to plant_states
simulation_update_Short(s, ts, output, a) ==
    LET plant   == PlantUpdate(s.plant, output, a.sampletime)
        delayed == DequeAppend(s.delayed_states, sensable_state(plant))
    IN  [s EXCEPT !.plant = plant,
                  !.delayed_states = delayed,
                  !.sensor_states = Append(@, Front(delayed)),
                  !.timestamps = Append(@, ts),
                  !.outputs = Append(@, output)]

\* simulation_update recording the front of the delay line before the push
simulation_update_PrePush(s, ts, output, a) ==
    LET plant   == PlantUpdate(s.plant, output, a.sampletime)
        delayed == DequeAppend(s.delayed_states, sensable_state(plant))
    IN  [s EXCEPT !.plant = plant,
                  !.delayed_states = delayed,
                  !.sensor_states = Append(@, Front(s.delayed_states)),
                  !.timestamps = Append(@, ts),
                  !.outputs = Append(@, output),
                  !.plant_states = Append(@, sensable_state(plant))]

\* simulation_update(simulation, timestamp, output, args)
simulation_update(s, ts, output, a) ==
    LET plant   == PlantUpdate(s.plant, output, a.sampletime)
        delayed == DequeAppend(s.delayed_states, sensable_state(plant))
    IN  [s EXCEPT !.plant = plant,
                  !.delayed_states = delayed,
                  !.sensor_states = Append(@, Front(delayed)),
                  !.timestamps = Append(@, ts),
                  !.outputs = Append(@, output),
                  !.plant_states = Append(@, sensable_state(plant))]

\* before simulate_system has built anything
NoSimulation ==
    [controller |-> PIDArduino(0, 0, 0, 0, 0, 0),
     plant |-> [cls |-> "", state |-> 0, k |-> 0],
     delayed_states |-> Deque(0),
     timestamps |-> <<>>, plant_states |-> <<>>, sensor_states |-> <<>>,
     outputs |-> <<>>]

NoTrace ==
    [ticks |-> 0, rng_draws |-> 0, reads |-> <<>>, sensor_state |-> <<>>,
     calc_calls |-> <<>>, update_calls |-> <<>>, plotted |-> FALSE,
     error |-> ""]

Init ==
    /\ args \in ArgsSet
    /\ pc = "start"
    /\ timestamp = 0
    /\ delayed_samples_len = 0
    /\ allowable_change = 0
    /\ sim = NoSimulation
    /\ trace = NoTrace

\* simulate_system up to the loop: the checks, the Simulation tuple, the
\* pre-filled delay line, the allowable change
Setup ==
    /\ pc = "start"
    /\ IF SetupError(args) # ""
       THEN /\ pc' = "error"
            /\ trace' = [trace EXCEPT !.error = SetupError(args)]
            /\ UNCHANGED <<timestamp, delayed_samples_len, allowable_change, sim>>
       ELSE /\ pc' = "running"
            /\ timestamp' = 0
            /\ delayed_samples_len' = DelayedSamplesLen(args)
            /\ sim' = NewSimulation(args, DelayedSamplesLen(args))
            /\ allowable_change' = AllowableChange(args)
            /\ UNCHANGED trace
    /\ UNCHANGED args

\* one pass of the loop body, simulation_update included
Tick ==
    /\ pc = "running"
    /\ LoopCondition(timestamp, args)
    /\ \E noise \in SensorNoise(args) :
         LET now          == timestamp + args.sampletime
             front        == Front(sim.delayed_states)
             sensor_state == front + noise.value
             r == ControllerReaction(args, sim.controller, now, sensor_state,
                                     allowable_change)
         IN  /\ timestamp' = now
             /\ sim' = simulation_update([sim EXCEPT !.controller = r.controller],
                                         now, r.output, args)
             /\ trace' = [trace EXCEPT
                            !.ticks = @ + 1,
                            !.rng_draws = IF noise.drawn THEN @ + 1 ELSE @,
                            !.reads = Append(@, front),
                            !.sensor_state = Append(@, sensor_state),
                            !.calc_calls = @ \o r.calls,
                            !.update_calls = Append(@, [command |-> r.output,
                                                        duration |-> args.sampletime])]
    /\ UNCHANGED <<args, pc, delayed_samples_len, allowable_change>>

\* the loop is left and plot_simulation reports the series
Report ==
    /\ pc = "running"
    /\ ~LoopCondition(timestamp, args)
    /\ pc' = "complete"
    /\ trace' = [trace EXCEPT !.plotted = TRUE]
    /\ UNCHANGED <<args, timestamp, delayed_samples_len, allowable_change, sim>>

Next == Setup \/ Tick \/ Report

Spec == Init /\ [][Next]_vars

----------------------------------------------------------------------------
(* Properties *)

\* ceil(n / d), d # 0
CeilDiv(n, d) == -FloorDiv(-n, d)

Built == pc \in {"running", "complete"}
NoiseOff == args.sensor_noise_std_dev <= 0
Capacity == sim.delayed_states.maxlen
Initial == args.initial_values.val
TickSet == 1 .. trace.ticks

\* C1: after initialisation and after every completed tick, timestamps,
\* sensor_states, outputs and plant_states have the same length, the number
\* of ticks executed so far.
C1_SeriesLengths ==
    /\ Len(sim.timestamps) = trace.ticks
    /\ Len(sim.sensor_states) = trace.ticks
    /\ Len(sim.outputs) = trace.ticks
    /\ Len(sim.plant_states) = trace.ticks
    /\ Built => timestamp = trace.ticks * args.sampletime

C1_Witness ==
    /\ pc = "running"
    /\ trace.ticks = 3
    /\ Len(sim.timestamps) = 3
    /\ Len(sim.plant_states) = 3

\* C2 as stated: for sample time > 0 and horizon > 0, when the loop has
\* terminated the number of recorded ticks is round(horizon * 60 / sample time).
C2_TicksAreRounded ==
    (pc = "complete" /\ args.sampletime > 0 /\ args.interval > 0)
        => Len(sim.timestamps) = PyRound(args.interval * 60, args.sampletime)

\* C2 amended: for sample time > 0 and horizon > 0, when the loop has
\* terminated the number of recorded ticks is ceil(horizon * 60 / sample
\* time), the least n with n * sample time >= horizon * 60; sample time 5 s
\* and horizon 20 min give 240 ticks.
C2_TicksAreCeiling ==
    (pc = "complete" /\ args.sampletime > 0 /\ args.interval > 0)
        => /\ Len(sim.timestamps) = CeilDiv(args.interval * 60, args.sampletime)
           /\ (args.sampletime = 5 /\ args.interval = 20)
                  => Len(sim.timestamps) = 240

C2_Witness ==
    /\ pc = "complete"
    /\ args.sampletime > 0 /\ args.interval > 0
    /\ Len(sim.timestamps) = CeilDiv(args.interval * 60, args.sampletime)
    /\ Len(sim.timestamps) # PyRound(args.interval * 60, args.sampletime)

\* the last n elements of s
LastN(s, n) == SubSeq(s, Len(s) - n + 1, Len(s))

\* C3: for delay >= 0 and sample time > 0 the delay line holds exactly
\* N = max(1, round(delay / sample time)) elements from the end of
\* initialisation to the end of the run; each tick appends one observation
\* and evicts the oldest one, so it holds the last N of the initial value
\* repeated N times followed by the observations; with delay 0, N is 1.
C3_DelayLineLength ==
    (Built /\ args.delay >= 0 /\ args.sampletime > 0)
        => LET n == Max(1, PyRound(args.delay, args.sampletime))
           IN  /\ Len(sim.delayed_states.items) = n
               /\ delayed_samples_len = n
               /\ sim.delayed_states.items
                    = LastN(Repeat(n, Initial) \o sim.plant_states, n)
               /\ args.delay = 0 => Len(sim.delayed_states.items) = 1

C3_Witness ==
    /\ Built
    /\ args.delay = 50 /\ args.sampletime = 20
    /\ trace.ticks = 3
    /\ sim.delayed_states.items = <<sim.plant_states[2], sim.plant_states[3]>>

\* C4: with sensor noise disabled and capacity N, the value sensed on tick k
\* is the plant's initial observable when k <= N and otherwise the observable
\* plant.update produced at the end of tick k - N; with delay 0 the value
\* sensed on tick k > 1 is the observable of tick k - 1.
C4_SensedLag ==
    (Built /\ NoiseOff)
        => /\ Len(trace.sensor_state) = trace.ticks
           /\ \A k \in TickSet :
                /\ trace.sensor_state[k]
                     = IF k <= Capacity THEN Initial
                       ELSE sim.plant_states[k - Capacity]
                /\ (args.delay = 0 /\ k > 1)
                     => trace.sensor_state[k] = sim.plant_states[k - 1]

C4_Witness ==
    /\ Built /\ NoiseOff
    /\ Capacity = 2
    /\ trace.ticks = 3
    /\ trace.sensor_state[3] = sim.plant_states[1]
    /\ trace.sensor_state[3] # Initial

\* C5 as stated: on every tick with sensor noise disabled, the value appended
\* to sensor_states is the delayed value read earlier in the same tick and
\* passed to controller.calc.
C5_RecordedIsUsed ==
    (Built /\ NoiseOff /\ ~args.supress_output)
        => \A k \in 1 .. Len(trace.calc_calls) :
             sim.sensor_states[k] = trace.calc_calls[k].input_val

\* C5 amended: on every tick with sensor noise disabled, the value appended
\* to sensor_states is the front of the delay line after the tick's push:
\* the value the next tick reads and passes to controller.calc (the initial
\* observable on ticks k < N, the observable of tick k - N + 1 otherwise).
C5_RecordedIsNext ==
    (Built /\ NoiseOff)
        => /\ \A k \in TickSet :
                /\ sim.sensor_states[k]
                     = IF k < Capacity THEN Initial
                       ELSE sim.plant_states[k - Capacity + 1]
                /\ k < trace.ticks
                     => sim.sensor_states[k] = trace.sensor_state[k + 1]
                /\ (k < trace.ticks /\ ~args.supress_output)
                     => sim.sensor_states[k] = trace.calc_calls[k + 1].input_val
           /\ trace.ticks > 0
                => sim.sensor_states[trace.ticks] = Front(sim.delayed_states)

C5_Witness ==
    /\ Built /\ NoiseOff /\ ~args.supress_output
    /\ trace.ticks = 2
    /\ sim.sensor_states[1] = trace.calc_calls[2].input_val
    /\ sim.sensor_states[1] # trace.calc_calls[1].input_val

\* C6: with the suppress-output flag set, on every tick the recorded output
\* is 0, plant.update is called with command 0, and controller.calc is never
\* called: the controller is as constructed to the end of the run.
C6_SuppressedOutput ==
    (Built /\ args.supress_output)
        => /\ \A k \in TickSet :
                /\ sim.outputs[k] = 0
                /\ trace.update_calls[k].command = 0
           /\ Len(trace.update_calls) = trace.ticks
           /\ trace.calc_calls = <<>>
           /\ sim.controller
                = PIDArduino(args.sampletime, args.pid[1], args.pid[2],
                             args.pid[3], args.out_min, args.out_max)

C6_Witness ==
    /\ pc = "complete"
    /\ args.supress_output
    /\ args.pid = <<2, 1, 1>>
    /\ trace.ticks = 3
    /\ sim.outputs = <<0, 0, 0>>
    /\ sim.plant_states[3] # Initial

\* C7: an unknown plant name, initial or constant values that are not a
\* mapping, a sample time <= 0 and a horizon <= 0 each make simulate_system
\* end in an error before the first tick, with nothing appended to any
\* series and no report produced.
C7_ConfigErrorsAbort ==
    (/\ pc # "start"
     /\ \/ args.plant \notin PlantNames
        \/ args.initial_values.kind # "dict"
        \/ args.constant_values.kind # "dict"
        \/ args.sampletime <= 0
        \/ args.interval <= 0)
        => /\ pc = "error"
           /\ trace.error # ""
           /\ trace.ticks = 0
           /\ sim.timestamps = <<>> /\ sim.sensor_states = <<>>
           /\ sim.outputs = <<>> /\ sim.plant_states = <<>>
           /\ ~trace.plotted

\* C8: in a run without suppress-output, for every tick t > 0 the recorded
\* outputs satisfy |outputs[t] - outputs[t-1]| <= output_rate_limit * sample
\* time, and that bound, computed once before the loop, is what every call
\* of controller.calc gets as max_allowable_change.
C8_RateLimit ==
    (Built /\ ~args.supress_output)
        => LET bound == args.output_rate_limit * args.sampletime
           IN  /\ allowable_change = bound
               /\ Len(trace.calc_calls) = trace.ticks
               /\ \A k \in TickSet :
                    trace.calc_calls[k].max_allowable_change = bound
               /\ \A t \in 2 .. Len(sim.outputs) :
                    Abs(sim.outputs[t] - sim.outputs[t - 1]) <= bound

C8_Witness ==
    /\ Built /\ ~args.supress_output
    /\ trace.ticks = 3
    /\ Abs(sim.outputs[3] - sim.outputs[2])
         = args.output_rate_limit * args.sampletime
    /\ sim.outputs[3] # args.out_min /\ sim.outputs[3] # args.out_max

\* C9: in a run without suppress-output, the output recorded on every tick
\* lies within [out_min, out_max], for all sensed inputs, gains and rate
\* limits; with kp = ki = kd = 0 the output on every tick is the previous
\* output, or 0 on the first tick.
C9_OutputInRange ==
    (Built /\ ~args.supress_output)
        => \A t \in 1 .. Len(sim.outputs) :
             /\ args.out_min <= sim.outputs[t]
             /\ sim.outputs[t] <= args.out_max
             /\ args.pid = <<0, 0, 0>>
                  => sim.outputs[t] = IF t = 1 THEN 0 ELSE sim.outputs[t - 1]

\* C10: with sensor_noise_std_dev not greater than 0 the random number
\* generator is never drawn from and the sensed value passed to the
\* controller is the front of the delay line exactly; with it greater than
\* 0, exactly one draw is made per tick.
C10_NoiseDraws ==
    Built
        => /\ Len(trace.reads) = trace.ticks
           /\ NoiseOff
                => /\ trace.rng_draws = 0
                   /\ trace.sensor_state = trace.reads
                   /\ \A k \in 1 .. Len(trace.calc_calls) :
                        trace.calc_calls[k].input_val = trace.reads[k]
           /\ ~NoiseOff => trace.rng_draws = trace.ticks

C10_Witness ==
    /\ Built
    /\ args.sensor_noise_std_dev < 0
    /\ ~args.supress_output
    /\ trace.ticks = 3
    /\ trace.rng_draws = 0
    /\ trace.calc_calls[3].input_val = trace.reads[3]
    /\ trace.reads[3] # Initial

====
